---- MODULE Spec2Model ----
(***************************************************************************)
(* Model of src/src/Consumer.ts: the Consumer lifecycle (open / paused /   *)
(* closed), its three event channels and the track it drives.              *)
(*                                                                         *)
(* JavaScript runs every operation synchronously on one thread, but a      *)
(* listener invoked by emit()/safeEmit() may call back into the Consumer   *)
(* before the emitting operation continues.  The model therefore keeps a   *)
(* call stack: an operation that reaches an emission pushes a frame, the   *)
(* emission is delivered, the listener runs (and may invoke operations,    *)
(* return or throw), and the operation resumes at its next emission.       *)
(***************************************************************************)
EXTENDS Integers, Sequences, FiniteSets, TLC

\* Bounds of the model.
MaxCalls == 3   \* invocations made by the environment (operations + track notifications)
MaxDepth == 2   \* nesting depth of operations invoked from inside listeners
MaxStats == 2   \* getStats() results created

VARIABLES
  closed,         \* Consumer._closed
  paused,         \* Consumer._paused
  trackEnabled,   \* Consumer._track.enabled
  endedListener,  \* onTrackEnded is registered for the track's 'ended' event
  stopCalls,      \* number of invocations of Consumer._track.stop()
  stack,          \* operations in progress, innermost last
  stats,          \* the promises returned by getStats(), in call order
  emitted,        \* number of emissions of each event so far
  lateEmitted,    \* emissions made by onTrackEnded for notifications raised after closure
  late,           \* 'ended' notifications raised by the track after closure, and how
                  \* many of them found onTrackEnded registered
  detachFailed,   \* removeEventListener threw during termination
  stopFailed,     \* _track.stop() threw during termination
  closedBy,       \* operation that closed the Consumer
  calls,          \* invocations made so far
  lastReturn,     \* the call that returned last, and how
  threw           \* the operations that have let an exception out to their caller

vars == << closed, paused, trackEnabled, endedListener, stopCalls, stack, stats,
           emitted, lateEmitted, late, detachFailed, stopFailed, closedBy, calls,
           lastReturn, threw >>

\* ConsumerEvents (public channel, '@' = private) and ConsumerObserverEvents ("o:").
ConsumerEvents == { "transportclose", "trackended", "@getstats", "@close", "@pause", "@resume" }

ConsumerObserverEvents == { "o:close", "o:pause", "o:resume", "o:trackended" }

Events == ConsumerEvents \cup ConsumerObserverEvents

LateEvents == { "trackended", "o:trackended" }

\* An event passed to emit(), and one passed to safeEmit().
Emit(ev) == [ev |-> ev, safe |-> FALSE]

SafeEmit(ev) == [ev |-> ev, safe |-> TRUE]

\* Variant of Emissions: transportClosed() passes 'transportclose' to emit().
Emissions_TransportCloseUnsafe(op) ==
  CASE op = "close"           -> << Emit("@close"), SafeEmit("o:close") >>
    [] op = "transportClosed" -> << Emit("transportclose"), SafeEmit("o:close") >>
    [] op = "getStats"        -> << SafeEmit("@getstats") >>
    [] op = "pause"           -> << Emit("@pause"), SafeEmit("o:pause") >>
    [] op = "resume"          -> << Emit("@resume"), SafeEmit("o:resume") >>
    [] op = "onTrackEnded"    -> << SafeEmit("trackended"), SafeEmit("o:trackended") >>

\* Variant of Emissions: pause() passes '@pause' to safeEmit().
Emissions_PauseSafe(op) ==
  CASE op = "close"           -> << Emit("@close"), SafeEmit("o:close") >>
    [] op = "transportClosed" -> << SafeEmit("transportclose"), SafeEmit("o:close") >>
    [] op = "getStats"        -> << SafeEmit("@getstats") >>
    [] op = "pause"           -> << SafeEmit("@pause"), SafeEmit("o:pause") >>
    [] op = "resume"          -> << Emit("@resume"), SafeEmit("o:resume") >>
    [] op = "onTrackEnded"    -> << SafeEmit("trackended"), SafeEmit("o:trackended") >>

\* The emissions each operation makes once past its guards, in program order;
\* safe = delivered with safeEmit(), otherwise with emit().
Emissions(op) ==
  CASE op = "close"           -> << [ev |-> "@close", safe |-> FALSE], [ev |-> "o:close", safe |-> TRUE] >>
    [] op = "transportClosed" -> << [ev |-> "transportclose", safe |-> TRUE], [ev |-> "o:close", safe |-> TRUE] >>
    [] op = "getStats"        -> << [ev |-> "@getstats", safe |-> TRUE] >>
    [] op = "pause"           -> << [ev |-> "@pause", safe |-> FALSE], [ev |-> "o:pause", safe |-> TRUE] >>
    [] op = "resume"          -> << [ev |-> "@resume", safe |-> FALSE], [ev |-> "o:resume", safe |-> TRUE] >>
    [] op = "onTrackEnded"    -> << [ev |-> "trackended", safe |-> TRUE], [ev |-> "o:trackended", safe |-> TRUE] >>

\* A frame of the call stack: operation op stands at its k-th emission, either
\* about to deliver it (pc = "emit") or inside its listener (pc = "listener").
\* failed = the events of this operation whose listener threw into safeEmit().
Frame(op, isLate, arg) ==
  [op |-> op, k |-> 1, pc |-> "emit", late |-> isLate, arg |-> arg, failed |-> {}]

Top == stack[Len(stack)]

Pop == SubSeq(stack, 1, Len(stack) - 1)

\* An invocation can be made by the application (no operation in progress) or
\* by a listener that is running.
CanCall ==
  /\ calls < MaxCalls
  /\ Len(stack) < MaxDepth
  /\ IF stack = << >> THEN TRUE ELSE Top.pc = "listener"

\* What a call leaves behind when it returns; caught = the events of that call
\* whose listener threw into safeEmit().
Returned(op, outcome) == [op |-> op, outcome |-> outcome, caught |-> {}]

ReturnedCatching(op, caught) == [op |-> op, outcome |-> "ok", caught |-> caught]

\* Operation op returns to its caller, normally or with an exception.
Return(op, outcome) ==
  /\ lastReturn' = Returned(op, outcome)
  /\ threw' = IF outcome = "threw" THEN threw \cup {op} ELSE threw

\* Operation op has passed its guards and reaches its first emission: it is
\* now in progress, inside every operation already in progress.
Enter(op, isLate, arg) == Append(stack, Frame(op, isLate, arg))

\* Variant of constructorPaused: paused defaults to false.
constructorPaused_Default(enabled) == FALSE

\* constructor, line 94: this._paused = !track.enabled.
constructorPaused(enabled) == ~enabled

Init ==
  /\ closed = FALSE
  /\ trackEnabled \in BOOLEAN
  /\ paused = constructorPaused(trackEnabled)
  /\ endedListener = TRUE
  /\ stopCalls = 0
  /\ stack = << >>
  /\ stats = << >>
  /\ emitted = [e \in Events |-> 0]
  /\ lateEmitted = [e \in LateEvents |-> 0]
  /\ late = [raised |-> 0, attached |-> 0]
  /\ detachFailed = FALSE
  /\ stopFailed = FALSE
  /\ closedBy = "none"
  /\ calls = 0
  /\ lastReturn = Returned("constructor", "ok")
  /\ threw = {}


\* ---------------------------------------------------------------- the track

\* Variant of destroyTrack: the 'ended' listener is never removed.
destroyTrack_KeepsListener(removeThrows, stopThrows) ==
  /\ endedListener' = endedListener
  /\ stopCalls' = (IF removeThrows THEN stopCalls ELSE stopCalls + 1)
  /\ detachFailed' = removeThrows
  /\ stopFailed' = (~removeThrows /\ stopThrows)

\* destroyTrack(): removeEventListener and stop() inside one try block whose
\* catch discards the failure.  A throw of removeEventListener skips stop() and
\* leaves it to the track whether the listener is still registered; stop() is
\* invoked (whether or not it then throws) only when removeEventListener
\* returned.
destroyTrack(removeThrows, stopThrows) ==
  /\ endedListener' \in (IF removeThrows THEN {endedListener, FALSE} ELSE {FALSE})
  /\ stopCalls' = (IF removeThrows THEN stopCalls ELSE stopCalls + 1)
  /\ detachFailed' = removeThrows
  /\ stopFailed' = (~removeThrows /\ stopThrows)

\* Variant of destroyTrackThrows: destroyTrack() without its try/catch.
destroyTrackThrows_NoCatch(removeThrows, stopThrows) == removeThrows \/ stopThrows

\* destroyTrack(), lines 303-306: the empty catch block discards whatever
\* removeEventListener or stop() throws, so nothing gets out of destroyTrack().
destroyTrackThrows(removeThrows, stopThrows) == FALSE

\* ------------------------------------------------------------ the operations

\* Variant of statsAtClose: termination rejects the outstanding promises.
statsAtClose_Rejected ==
  [i \in DOMAIN stats |->
     IF stats[i].state = "pending" THEN [stats[i] EXCEPT !.state = "rejected"] ELSE stats[i]]

\* close() and transportClosed(), lines 185-220: neither holds or touches the
\* promises getStats() returned.
statsAtClose == stats

\* Variant of closeSkips: close() without its early return.
closeSkips_Never == FALSE

\* close(), line 186: the early return.
closeSkips == closed

\* close(): marks the Consumer closed, destroys the track, then emits '@close'
\* and the observer's 'close'.
close ==
  /\ CanCall
  /\ calls' = calls + 1
  /\ IF closeSkips
       THEN /\ Return("close", "ok")
            /\ UNCHANGED << closed, paused, trackEnabled, endedListener, stopCalls, stack,
                            stats, emitted, lateEmitted, late, detachFailed, stopFailed,
                            closedBy >>
       ELSE /\ closed' = TRUE
            /\ closedBy' = "close"
            /\ stats' = statsAtClose
            /\ \E removeThrows \in BOOLEAN, stopThrows \in BOOLEAN :
                 /\ destroyTrack(removeThrows, stopThrows)
                 /\ IF destroyTrackThrows(removeThrows, stopThrows)
                      THEN /\ Return("close", "threw")
                           /\ UNCHANGED stack
                      ELSE /\ stack' = Enter("close", FALSE, 0)
                           /\ UNCHANGED << lastReturn, threw >>
            /\ UNCHANGED << paused, trackEnabled, emitted, lateEmitted, late >>

\* Variant of transportClosedSkips: transportClosed() without its early return.
transportClosedSkips_Never == FALSE

\* transportClosed(), line 206: the early return.
transportClosedSkips == closed

\* transportClosed(): as close(), but emits the public 'transportclose'.
transportClosed ==
  /\ CanCall
  /\ calls' = calls + 1
  /\ IF transportClosedSkips
       THEN /\ Return("transportClosed", "ok")
            /\ UNCHANGED << closed, paused, trackEnabled, endedListener, stopCalls, stack,
                            stats, emitted, lateEmitted, late, detachFailed, stopFailed,
                            closedBy >>
       ELSE /\ closed' = TRUE
            /\ closedBy' = "transportClosed"
            /\ stats' = statsAtClose
            /\ \E removeThrows \in BOOLEAN, stopThrows \in BOOLEAN :
                 /\ destroyTrack(removeThrows, stopThrows)
                 /\ IF destroyTrackThrows(removeThrows, stopThrows)
                      THEN /\ Return("transportClosed", "threw")
                           /\ UNCHANGED stack
                      ELSE /\ stack' = Enter("transportClosed", FALSE, 0)
                           /\ UNCHANGED << lastReturn, threw >>
            /\ UNCHANGED << paused, trackEnabled, emitted, lateEmitted, late >>

\* Variants of pauseSkips: without the already-paused check; without the closed check.
pauseSkips_ClosedOnly == closed

pauseSkips_NoClosedCheck == paused

\* pause(), lines 241-251: the two early returns.
pauseSkips == closed \/ paused

\* Variant of pauseTransition: the track's enabled flag is not written.
pauseTransition_NoTrack ==
  /\ paused' = TRUE
  /\ trackEnabled' = trackEnabled

\* pause(), lines 253-254.
pauseTransition ==
  /\ paused' = TRUE
  /\ trackEnabled' = FALSE

pause ==
  /\ CanCall
  /\ calls' = calls + 1
  /\ IF pauseSkips
       THEN /\ Return("pause", "ok")
            /\ UNCHANGED << paused, trackEnabled, stack >>
       ELSE /\ pauseTransition
            /\ stack' = Enter("pause", FALSE, 0)
            /\ UNCHANGED << lastReturn, threw >>
  /\ UNCHANGED << closed, endedListener, stopCalls, stats, emitted, lateEmitted, late,
                  detachFailed, stopFailed, closedBy >>

\* Variant of resumeSkips: without the closed check.
resumeSkips_NoClosedCheck == ~paused

\* resume(), lines 268-278: the two early returns.
resumeSkips == closed \/ ~paused

\* resume(), lines 280-281.
resumeTransition ==
  /\ paused' = FALSE
  /\ trackEnabled' = TRUE

resume ==
  /\ CanCall
  /\ calls' = calls + 1
  /\ IF resumeSkips
       THEN /\ Return("resume", "ok")
            /\ UNCHANGED << paused, trackEnabled, stack >>
       ELSE /\ resumeTransition
            /\ stack' = Enter("resume", FALSE, 0)
            /\ UNCHANGED << lastReturn, threw >>
  /\ UNCHANGED << closed, endedListener, stopCalls, stats, emitted, lateEmitted, late,
                  detachFailed, stopFailed, closedBy >>

\* Variant of getStatsRejects: getStats() without its closed check.
getStatsRejects_Never == FALSE

\* getStats(), line 226: the closed check of the async function.
getStatsRejects == closed

\* A promise as getStats() creates it: rejected with InvalidStateError when the
\* Consumer is closed, otherwise pending with a resolve/reject pair of its own
\* (handed = a '@getstats' listener has received the pair).
NewPromise(rejects) == [state |-> IF rejects THEN "InvalidState" ELSE "pending", handed |-> FALSE]

\* getStats(): returns a rejected promise when closed; otherwise a new promise
\* whose executor emits '@getstats' with that promise's resolve and reject.
getStats ==
  /\ CanCall
  /\ Len(stats) < MaxStats
  /\ calls' = calls + 1
  /\ stats' = Append(stats, NewPromise(getStatsRejects))
  /\ IF getStatsRejects
       THEN /\ Return("getStats", "ok")
            /\ UNCHANGED stack
       ELSE /\ stack' = Enter("getStats", FALSE, Len(stats) + 1)
            /\ UNCHANGED << lastReturn, threw >>
  /\ UNCHANGED << closed, paused, trackEnabled, endedListener, stopCalls, emitted,
                  lateEmitted, late, detachFailed, stopFailed, closedBy >>

\* Variant of onTrackEnded: the handler closes the Consumer.
onTrackEnded_Closes ==
  /\ closed' = TRUE
  /\ UNCHANGED << paused, trackEnabled, endedListener, stopCalls >>

\* onTrackEnded(), lines 289-296: the handler assigns no field of the Consumer
\* and calls nothing on the track; it only emits.
onTrackEnded == UNCHANGED << closed, paused, trackEnabled, endedListener, stopCalls >>

\* The track raises 'ended' (from the event loop, no operation in progress):
\* onTrackEnded() runs if handleTrack()'s registration is still in place, and
\* emits 'trackended' on the public and on the observer channel.
TrackEnded ==
  /\ stack = << >>
  /\ calls < MaxCalls
  /\ calls' = calls + 1
  /\ late' = IF closed
               THEN [raised |-> late.raised + 1,
                     attached |-> late.attached + (IF endedListener THEN 1 ELSE 0)]
               ELSE late
  /\ IF endedListener
       THEN /\ onTrackEnded
            /\ stack' = Enter("onTrackEnded", closed, 0)
            /\ UNCHANGED << lastReturn, threw >>
       ELSE /\ Return("ended", "ok")
            /\ UNCHANGED << closed, paused, trackEnabled, endedListener, stopCalls, stack >>
  /\ UNCHANGED << stats, emitted, lateEmitted, detachFailed, stopFailed, closedBy >>


\* --------------------------------------------------- emissions and listeners

\* The emission the innermost operation stands at.
Current == Emissions(Top.op)[Top.k]

\* The innermost operation calls emit()/safeEmit() for its current event; the
\* listener starts running.  For '@getstats' the listener, if one is
\* registered, receives the promise's resolve/reject pair.
Deliver ==
  /\ stack # << >>
  /\ Top.pc = "emit"
  /\ emitted' = [emitted EXCEPT ![Current.ev] = @ + 1]
  /\ lateEmitted' = IF Top.late THEN [lateEmitted EXCEPT ![Current.ev] = @ + 1] ELSE lateEmitted
  /\ IF Current.ev = "@getstats"
       THEN \E listening \in BOOLEAN : stats' = [stats EXCEPT ![Top.arg].handed = listening]
       ELSE UNCHANGED stats
  /\ stack' = [stack EXCEPT ![Len(stack)].pc = "listener"]
  /\ UNCHANGED << closed, paused, trackEnabled, endedListener, stopCalls, late, detachFailed,
                  stopFailed, closedBy, calls, lastReturn, threw >>

\* The innermost operation goes on after its current emission: to its next
\* emission, or it returns.  caught = safeEmit() caught a listener's error.
Continue(caught) ==
  IF Top.k < Len(Emissions(Top.op))
    THEN /\ stack' = [stack EXCEPT ![Len(stack)].k = @ + 1, ![Len(stack)].pc = "emit",
                                   ![Len(stack)].failed =
                                      IF caught THEN @ \cup {Current.ev} ELSE @]
         /\ UNCHANGED << lastReturn, threw >>
    ELSE /\ stack' = Pop
         /\ lastReturn' = ReturnedCatching(Top.op, Top.failed \cup
                                                     (IF caught THEN {Current.ev} ELSE {}))
         /\ UNCHANGED threw

\* The listener of the current emission returns (or none is registered).
ListenerReturns ==
  /\ stack # << >>
  /\ Top.pc = "listener"
  /\ Continue(FALSE)
  /\ UNCHANGED << closed, paused, trackEnabled, endedListener, stopCalls, stats, emitted,
                  lateEmitted, late, detachFailed, stopFailed, closedBy, calls >>

\* The listener of the current emission throws: safeEmit() catches the error
\* and the operation goes on; emit() lets it out of the operation, into the
\* caller (the application, or the listener that invoked the operation).
ListenerThrows ==
  /\ stack # << >>
  /\ Top.pc = "listener"
  /\ IF Current.safe
       THEN Continue(TRUE)
       ELSE /\ stack' = Pop
            /\ Return(Top.op, "threw")
  /\ UNCHANGED << closed, paused, trackEnabled, endedListener, stopCalls, stats, emitted,
                  lateEmitted, late, detachFailed, stopFailed, closedBy, calls >>

\* ------------------------------------------------------------ the collaborator

\* Variant of Settle: one resolve/reject pair shared by all getStats() calls.
Settle_Shared(i, outcome) ==
  [j \in DOMAIN stats |->
     IF stats[j].state = "pending" THEN [stats[j] EXCEPT !.state = outcome] ELSE stats[j]]

\* Variant of Settle: a later callback overwrites the outcome of an earlier one.
Settle_Overwrites(i, outcome) == [stats EXCEPT ![i].state = outcome]

\* The resolve/reject pair created by getStats() for promise i: invoking either
\* settles that promise if it is still pending, and nothing else.
Settle(i, outcome) ==
  [stats EXCEPT ![i].state = IF @ = "pending" THEN outcome ELSE @]

\* The collaborator invokes the resolve callback it was handed for promise i.
resolveStats(i) ==
  /\ stats[i].handed
  /\ stats' = Settle(i, "resolved")
  /\ UNCHANGED << closed, paused, trackEnabled, endedListener, stopCalls, stack, emitted,
                  lateEmitted, late, detachFailed, stopFailed, closedBy, calls, lastReturn,
                  threw >>

\* The collaborator invokes the reject callback it was handed for promise i.
rejectStats(i) ==
  /\ stats[i].handed
  /\ stats' = Settle(i, "rejected")
  /\ UNCHANGED << closed, paused, trackEnabled, endedListener, stopCalls, stack, emitted,
                  lateEmitted, late, detachFailed, stopFailed, closedBy, calls, lastReturn,
                  threw >>

Next ==
  \/ close
  \/ transportClosed
  \/ pause
  \/ resume
  \/ getStats
  \/ TrackEnded
  \/ Deliver
  \/ ListenerReturns
  \/ ListenerThrows
  \/ \E i \in 1..Len(stats) : resolveStats(i)
  \/ \E i \in 1..Len(stats) : rejectStats(i)

Spec == Init /\ [][Next]_vars

\* The collaborator answers the stats-request of promise i.
Answer(i) == IF i <= Len(stats) THEN resolveStats(i) \/ rejectStats(i) ELSE FALSE

\* The Consumer with a collaborator that does answer: a stats-request whose
\* callbacks it holds and has not used is eventually answered.
LiveSpec == Spec /\ \A i \in 1..MaxStats : WF_vars(Answer(i))


\* ------------------------------------------------------------------ claims

AllReturned == stack = << >>

\* The terminating call ran to its end: it emitted the observer's 'close', its
\* last statement, and every call has returned.
TerminationReturned == closed /\ AllReturned /\ emitted["o:close"] = 1

OpenStats == { i \in 1..Len(stats) : stats[i].state # "InvalidState" }

\* C1: while the Consumer is not closed, after every pause() or resume() call
\* has returned, the track's enabled flag equals !paused.
C1_EnabledMirrorsPaused ==
  (lastReturn.op \in {"pause", "resume"} /\ ~closed) => (trackEnabled = ~paused)

C1_Witness ==
  /\ lastReturn = Returned("pause", "ok")
  /\ AllReturned
  /\ ~closed
  /\ paused
  /\ ~trackEnabled
  /\ emitted["@pause"] = 1

\* C2: closed never reverts, and a close() or transportClosed() call made on a
\* closed Consumer returns without scheduling or making any emission and
\* without touching the track.
C2_TerminationIdempotent ==
  [][closed =>
       /\ closed'
       /\ (close \/ transportClosed) =>
            /\ stack' = stack
            /\ emitted' = emitted
            /\ lastReturn'.outcome = "ok"
            /\ UNCHANGED << trackEnabled, endedListener, stopCalls, paused >>]_vars

C2_Witness ==
  /\ closed
  /\ closedBy = "close"
  /\ AllReturned
  /\ lastReturn = Returned("transportClosed", "ok")
  /\ emitted["@close"] = 1
  /\ emitted["o:close"] = 1

\* C3: pause() on a paused Consumer and resume() on an active one make no
\* emission and leave paused, closed and the track's enabled flag unchanged.
C3_NoRedundantEmission ==
  [][((paused /\ pause) \/ (~paused /\ resume)) =>
       /\ stack' = stack
       /\ emitted' = emitted
       /\ UNCHANGED << paused, closed, trackEnabled >>]_vars

C3_Witness ==
  /\ ~closed
  /\ AllReturned
  /\ calls = 1
  /\ lastReturn = Returned("pause", "ok")
  /\ paused
  /\ emitted["@pause"] = 0

\* C4: getStats() on a closed Consumer returns a promise rejected with
\* InvalidState, emits no '@getstats', and that promise's resolve/reject pair
\* is never handed to anyone.
C4_GetStatsAfterClose ==
  /\ [][(closed /\ getStats) =>
          /\ stats' = Append(stats, [state |-> "InvalidState", handed |-> FALSE])
          /\ stack' = stack
          /\ emitted' = emitted]_vars
  /\ [](\A i \in 1..Len(stats) : stats[i].state = "InvalidState" => ~stats[i].handed)

C4_Witness ==
  /\ closed
  /\ AllReturned
  /\ lastReturn.op = "getStats"
  /\ Len(stats) = 1
  /\ stats[1].state = "InvalidState"
  /\ emitted["@getstats"] = 0

\* C5 (as stated): every 'ended' notification raised by the track after
\* close() has returned yields exactly one 'trackended' on the public channel
\* and exactly one on the observer channel.  Stated for the plain case: the
\* track's removeEventListener did not throw and close() ran to its end (the
\* observer's 'close' was emitted).
C5_Original ==
  (AllReturned /\ closedBy = "close" /\ ~detachFailed /\ emitted["o:close"] = 1) =>
     /\ lateEmitted["trackended"] = late.raised
     /\ lateEmitted["o:trackended"] = late.raised

\* C5 (amended): an 'ended' notification raised after termination yields
\* exactly one 'trackended' on each of the public and observer channels when
\* onTrackEnded is still registered with the track, and none otherwise; a
\* termination whose removeEventListener call returned leaves no listener
\* registered, so after it no late notification yields an emission.
C5_LateTrackEnded ==
  /\ AllReturned =>
       /\ lateEmitted["trackended"] = late.attached
       /\ lateEmitted["o:trackended"] = late.attached
  /\ (closed /\ ~detachFailed) => (~endedListener /\ late.attached = 0)

C5_Witness ==
  /\ AllReturned
  /\ closedBy = "close"
  /\ late.raised = 1
  /\ late.attached = 1
  /\ detachFailed
  /\ lateEmitted["trackended"] = 1
  /\ lateEmitted["o:trackended"] = 1

\* C6: every getStats() call on an open Consumer emits one '@getstats' with a
\* resolve/reject pair of its own; invoking a callback of one pair leaves
\* every other call's promise as it was.
C6_IndependentPairs ==
  /\ [](AllReturned => emitted["@getstats"] = Cardinality(OpenStats))
  /\ [][\A i \in 1..Len(stats) :
          (resolveStats(i) \/ rejectStats(i)) =>
             /\ Len(stats') = Len(stats)
             /\ \A j \in 1..Len(stats) : j # i => stats'[j] = stats[j]]_vars

C6_Witness ==
  /\ Len(stats) = 2
  /\ emitted["@getstats"] = 2
  /\ stats[1] = [state |-> "pending", handed |-> TRUE]
  /\ stats[2] = [state |-> "resolved", handed |-> TRUE]

\* C7: pause() and resume() on a closed Consumer return normally, make no
\* emission and leave paused and the track's enabled flag unchanged.
C7_NoopWhenClosed ==
  [][(closed /\ (pause \/ resume)) =>
       /\ stack' = stack
       /\ emitted' = emitted
       /\ lastReturn'.outcome = "ok"
       /\ UNCHANGED << paused, trackEnabled >>]_vars

C7_Witness ==
  /\ closed
  /\ closedBy = "close"
  /\ AllReturned
  /\ calls = 2
  /\ lastReturn = Returned("resume", "ok")
  /\ paused
  /\ ~trackEnabled
  /\ emitted["@resume"] = 0

\* C8: at most one of '@close' and 'transportclose' is ever emitted, at most
\* once; a Consumer closed by close() emits '@close' and never
\* 'transportclose', one closed by transportClosed() emits 'transportclose'
\* and never '@close'.
C8_OneTerminationSignal ==
  /\ emitted["@close"] + emitted["transportclose"] <= 1
  /\ closedBy = "none" => (emitted["@close"] = 0 /\ emitted["transportclose"] = 0)
  /\ closedBy = "close" =>
       (emitted["transportclose"] = 0 /\ (AllReturned => emitted["@close"] = 1))
  /\ closedBy = "transportClosed" =>
       (emitted["@close"] = 0 /\ (AllReturned => emitted["transportclose"] = 1))

C8_Witness ==
  /\ closedBy = "close"
  /\ AllReturned
  /\ lastReturn = Returned("transportClosed", "ok")
  /\ emitted["@close"] = 1
  /\ emitted["transportclose"] = 0

\* C9 (as stated): when the terminating call has returned, the track's stop()
\* has been invoked exactly once, whatever the outcome of the listener-detach
\* step, and no later operation invokes it again.
C9_Original == TerminationReturned => stopCalls = 1

\* C10 (as stated): whenever the Consumer is closed and the terminating call
\* has returned, the track's enabled flag is false.
C10_Original == TerminationReturned => ~trackEnabled

\* C10 (amended): termination does not write the track's enabled flag and no
\* call made after closure changes it: in every closed state the flag equals
\* !paused, so the track stays enabled exactly when the Consumer closed while
\* active.
C10_EnabledKeptAtClose ==
  /\ [](closed => trackEnabled = ~paused)
  /\ [][closed' => trackEnabled' = trackEnabled]_vars

C10_Witness ==
  /\ closed
  /\ AllReturned
  /\ trackEnabled
  /\ ~paused
  /\ calls = 2
  /\ lastReturn = Returned("pause", "ok")

\* The terminating operation's own signal has been emitted exactly once.
TerminationSignalled ==
  /\ closedBy = "close" => emitted["@close"] = 1
  /\ closedBy = "transportClosed" => emitted["transportclose"] = 1

\* C11: a failure of the track's removeEventListener or stop() during close()
\* or transportClosed() is swallowed: the call does not throw because of it,
\* the Consumer is closed, the call goes on to its emissions, and by its end
\* the termination signal has been emitted, and so has the observer's 'close'
\* (unless close() itself was left through a throwing '@close' listener).
C11_TrackFailureSwallowed ==
  /\ [][(~closed /\ (close \/ transportClosed) /\ (detachFailed' \/ stopFailed')) =>
          /\ closed'
          /\ threw' = threw
          /\ lastReturn' = lastReturn
          /\ Len(stack') = Len(stack) + 1
          /\ stack'[Len(stack')].pc = "emit"
          /\ stack'[Len(stack')].k = 1]_vars
  /\ []((AllReturned /\ (detachFailed \/ stopFailed)) =>
          /\ closed
          /\ TerminationSignalled
          /\ "close" \notin threw => emitted["o:close"] = 1)

C11_Witness ==
  /\ AllReturned
  /\ closed
  /\ closedBy = "close"
  /\ stopFailed
  /\ threw = {}
  /\ emitted["@close"] = 1
  /\ emitted["o:close"] = 1

\* The events passed to safeEmit() on the public and on the observer channel.
IsolatedEvents == { "transportclose", "trackended" } \cup ConsumerObserverEvents

\* The innermost operation is inside the listener of event ev.
InListenerOf(ev) ==
  IF stack = << >> THEN FALSE ELSE Top.pc = "listener" /\ Current.ev = ev

\* C12: a listener of 'transportclose', 'trackended' or of an observer event
\* that throws does not make the emitting operation throw, and the operation
\* goes on to its next emission (or returns normally); so transportClosed()
\* always emits the observer's 'close' and onTrackEnded() always emits on both
\* channels.
C12_ListenerFailureIsolated ==
  /\ [][\A ev \in IsolatedEvents :
          (InListenerOf(ev) /\ ListenerThrows) =>
             /\ threw' = threw
             /\ IF Top.k < Len(Emissions(Top.op))
                  THEN /\ Len(stack') = Len(stack)
                       /\ stack'[Len(stack')].k = Top.k + 1
                       /\ stack'[Len(stack')].pc = "emit"
                       /\ lastReturn' = lastReturn
                  ELSE /\ stack' = Pop
                       /\ lastReturn'.op = Top.op
                       /\ lastReturn'.outcome = "ok"
                       /\ ev \in lastReturn'.caught]_vars
  /\ []((AllReturned /\ closedBy = "transportClosed") =>
          (emitted["transportclose"] = 1 /\ emitted["o:close"] = 1))
  /\ [](AllReturned => emitted["trackended"] = emitted["o:trackended"])
  /\ []("transportClosed" \notin threw /\ "onTrackEnded" \notin threw)

C12_Witness ==
  /\ InListenerOf("o:close")
  /\ Top.op = "transportClosed"
  /\ "transportclose" \in Top.failed
  /\ emitted["transportclose"] = 1
  /\ emitted["o:close"] = 1
  /\ threw = {}

\* The private events of ConsumerEvents.
InternalEvents == { "@getstats", "@close", "@pause", "@resume" }

\* The operation in progress is left with the exception of its listener.
Propagates ==
  /\ stack' = Pop
  /\ lastReturn' = Returned(Top.op, "threw")
  /\ threw' = threw \cup {Top.op}

\* C13 (as stated): a failure raised by the listener of any of the four
\* internal signals propagates into the operation that emitted it.
C13_Original ==
  [][\A ev \in InternalEvents : (InListenerOf(ev) /\ ListenerThrows) => Propagates]_vars

\* C13 (amended): the close, pause and resume signals are emitted with emit():
\* a failure of their listener propagates into close(), pause(), resume().
\* The stats-request is emitted with safeEmit(): a failure of its listener is
\* caught, getStats() returns its promise normally and the promise is left
\* as the listener left it.
C13_InternalSignals ==
  /\ [][\A ev \in {"@close", "@pause", "@resume"} :
          (InListenerOf(ev) /\ ListenerThrows) => Propagates]_vars
  /\ [][(InListenerOf("@getstats") /\ ListenerThrows) =>
          /\ stack' = Pop
          /\ lastReturn' = ReturnedCatching("getStats", {"@getstats"})
          /\ threw' = threw
          /\ stats' = stats]_vars
  /\ []("getStats" \notin threw)

C13_Witness ==
  /\ AllReturned
  /\ lastReturn = Returned("pause", "threw")
  /\ threw = {"pause"}
  /\ paused
  /\ emitted["@pause"] = 1
  /\ emitted["o:pause"] = 0

\* C14: right after construction the Consumer is not closed, paused is the
\* negation of the track's enabled flag, nothing is in progress and no event
\* has been emitted on any channel.
C14_Construction ==
  calls = 0 =>
     /\ ~closed
     /\ paused = ~trackEnabled
     /\ stack = << >>
     /\ \A e \in Events : emitted[e] = 0
     /\ lastReturn = Returned("constructor", "ok")

C14_Witness ==
  /\ calls = 0
  /\ ~closed
  /\ paused
  /\ ~trackEnabled
  /\ emitted["o:pause"] = 0
  /\ emitted["@pause"] = 0

\* C15 (as stated): once the terminating call is over, the observer channel
\* has received 'close' exactly once and the call did not throw, whatever the
\* listeners did.
C15_Original ==
  (closed /\ AllReturned) =>
     /\ emitted["o:close"] = 1
     /\ "close" \notin threw
     /\ "transportClosed" \notin threw

\* The innermost operation delivers event ev in this step.
Delivering(ev) ==
  IF stack = << >> THEN FALSE ELSE Top.pc = "emit" /\ Current.ev = ev /\ Deliver

\* C16: whenever '@pause' or the observer's 'pause' is delivered, paused is
\* true and the track disabled; whenever '@resume' or the observer's 'resume'
\* is delivered, paused is false and the track enabled (stated for the runs in
\* which no operation has let a listener's exception out).
C16_Original ==
  [][threw = {} =>
       /\ (Delivering("@pause") \/ Delivering("o:pause")) => (paused /\ ~trackEnabled)
       /\ (Delivering("@resume") \/ Delivering("o:resume")) => (~paused /\ trackEnabled)]_vars

\* C17: close() and transportClosed() leave every promise of getStats() as it
\* is, and once the Consumer is closed a pending promise stops being pending
\* only in a step in which the collaborator invokes one of its callbacks.
C17_CloseLeavesStatsPending ==
  /\ [][(close \/ transportClosed) => stats' = stats]_vars
  /\ [][\A i \in 1..Len(stats) :
          (closed' /\ stats[i].state = "pending" /\ stats'[i].state # "pending") =>
             (resolveStats(i) \/ rejectStats(i))]_vars

C17_Witness ==
  /\ closed
  /\ AllReturned
  /\ emitted["o:close"] = 1
  /\ Len(stats) = 1
  /\ stats[1] = [state |-> "pending", handed |-> TRUE]

\* The getStats() calls that stand before their emission of '@getstats'.
StatsRequestsDue ==
  { n \in 1..Len(stack) : stack[n].op = "getStats" /\ stack[n].pc = "emit" }

Settled == { "resolved", "rejected" }

\* Promise i is pending and the collaborator holds its callbacks.
Awaited(i) ==
  IF i <= Len(stats) THEN stats[i].handed /\ stats[i].state = "pending" ELSE FALSE

\* Every promise whose callbacks the collaborator holds is settled.
NoneAwaited == \A i \in 1..MaxStats : ~Awaited(i)

\* C18: each getStats() call on an open Consumer emits exactly one
\* '@getstats'; its promise settles only in a step in which the collaborator
\* invokes a callback of its pair, with the outcome of that callback, and once
\* settled it never changes; a promise whose pair no listener received never
\* settles; and if the collaborator does answer, a promise whose pair it
\* received eventually settles (from any state with such promises pending, a
\* state where each of them is settled is reached).
C18_SettlesOnce ==
  /\ [](emitted["@getstats"] + Cardinality(StatsRequestsDue) = Cardinality(OpenStats))
  /\ [][\A i \in 1..Len(stats) :
          /\ stats[i].state # "pending" => stats'[i].state = stats[i].state
          /\ (stats[i].state = "pending" /\ stats'[i].state # "pending") =>
                \/ resolveStats(i) /\ stats'[i].state = "resolved"
                \/ rejectStats(i) /\ stats'[i].state = "rejected"]_vars
  /\ [](\A i \in 1..Len(stats) : stats[i].state \in Settled => stats[i].handed)
  /\ (\E i \in 1..MaxStats : Awaited(i)) ~> NoneAwaited

C18_Witness ==
  /\ AllReturned
  /\ ~closed
  /\ Len(stats) = 1
  /\ emitted["@getstats"] = 1
  /\ stats[1] = [state |-> "rejected", handed |-> TRUE]

\* The innermost operation is onTrackEnded() and takes a step.
HandlerStep ==
  IF stack = << >>
    THEN FALSE
    ELSE Top.op = "onTrackEnded" /\ (Deliver \/ ListenerReturns \/ ListenerThrows)

\* C19: the track's 'ended' notification and every step of onTrackEnded(), in
\* any state, leave closed, paused, the track's enabled flag, the number of
\* stop() calls and the listener registration unchanged.
C19_HandlerOnlyNotifies ==
  [][(TrackEnded \/ HandlerStep) =>
       UNCHANGED << closed, paused, trackEnabled, stopCalls, endedListener >>]_vars

C19_Witness ==
  /\ closed
  /\ closedBy = "transportClosed"
  /\ AllReturned
  /\ lastReturn.op = "onTrackEnded"
  /\ late.attached = 1
  /\ emitted["trackended"] = 1
  /\ emitted["o:trackended"] = 1

\* C20: once the observer's 'close' has been emitted, no observer 'pause' or
\* 'resume' is emitted (stated for the runs in which no operation has let a
\* listener's exception out).
C20_Original ==
  [][(threw = {} /\ emitted["o:close"] > 0) =>
       /\ emitted'["o:pause"] = emitted["o:pause"]
       /\ emitted'["o:resume"] = emitted["o:resume"]]_vars

====
